---- MODULE Spec2Model ----
(***************************************************************************)
(* Model of src/plugin.py: the command dispatcher HaiTurtleSoupCommand and  *)
(* the process-wide dictionary game_states it reads and writes.             *)
(*                                                                          *)
(* Strings are sequences of one-character strings.  The module is kept in   *)
(* ASCII, so the Chinese literals of the source are written in pinyin:      *)
(*   "shi" = U+662F (yes)      "bu" = U+4E0D (not)                          *)
(*   "wenti" = question keyword        "tishi" = hint keyword               *)
(*   "zhenglixiansuo" = clues keyword  "tangmian" = show-puzzle keyword     *)
(*   "caimi" = guess keyword           "tuichu" = exit keyword              *)
(*   "bangzhu" = help keyword          "jiemi" = reveal keyword             *)
(* Python dictionaries are objects with identity: game_states maps a group  *)
(* id to a reference, heap maps a reference to the dictionary's contents.   *)
(***************************************************************************)
EXTENDS Integers, Sequences, FiniteSets, TLC

VARIABLES game_states, heap, pc, task, limit, begun, message, matched_groups

vars == <<game_states, heap, pc, task, limit, begun, message, matched_groups>>

----------------------------------------------------------------------------
(* Bounds of the model *)

\* longest guess_history a command may still append to
MaxHist == 2

\* number of commands that can be in flight (coroutines of execute)
NumTasks == 2

\* number of commands that arrive when commands may overlap
MaxCommands == 5

----------------------------------------------------------------------------
(* Strings *)

Space == " "

IsSpace(c) == c = Space

RECURSIVE LStrip(_)
LStrip(s) == IF s # <<>> /\ IsSpace(Head(s)) THEN LStrip(Tail(s)) ELSE s

RECURSIVE RStrip(_)
RStrip(s) ==
    IF s # <<>> /\ IsSpace(s[Len(s)]) THEN RStrip(SubSeq(s, 1, Len(s) - 1)) ELSE s

\* str.strip()
Strip(s) == RStrip(LStrip(s))

LowerChar(c) == IF c = "A" THEN "a" ELSE c

\* str.lower()
Lower(s) == [i \in DOMAIN s |-> LowerChar(s[i])]

\* truthiness of a str
Truthy(s) == s # <<>>

----------------------------------------------------------------------------
(* Command parser: command_pattern applied to a message.  A message is a    *)
(* sequence of tokens: the prefix "/hgt", the whitespace character, one of  *)
(* the eight action keywords, or "x" (any other non-blank character).       *)

Prefix == "/hgt"

Keywords ==
    {"tishi", "wenti", "zhenglixiansuo", "caimi", "tuichu", "bangzhu", "jiemi",
     "tangmian"}

\* number of leading whitespace characters of s, the greedy match of \s+
RECURSIVE LeadingSpaces(_)
LeadingSpaces(s) ==
    IF s # <<>> /\ IsSpace(Head(s)) THEN 1 + LeadingSpaces(Tail(s)) ELSE 0

Drop(s, n) == SubSeq(s, n + 1, Len(s))

NoMatch == [matched |-> FALSE, action |-> "", rest |-> <<>>]

\* (?:\s+(?P<rest>.+))?$ applied to what follows the keyword: \s+ is greedy
\* but gives one character back when nothing else is left for .+
MatchRest(action, r) ==
    LET n == LeadingSpaces(r) IN
    IF r = <<>> THEN [matched |-> TRUE, action |-> action, rest |-> <<>>]
    ELSE IF n = 0 \/ Len(r) < 2 THEN NoMatch
    ELSE IF n = Len(r)
         THEN [matched |-> TRUE, action |-> action, rest |-> <<Space>>]
         ELSE [matched |-> TRUE, action |-> action, rest |-> Drop(r, n)]

\* ^/hgt(?:\s+(?P<action>...)) followed by MatchRest
Match(m) ==
    IF m = <<>> \/ Head(m) # Prefix THEN NoMatch
    ELSE LET r == Tail(m)
             n == LeadingSpaces(r)
         IN  IF n = 0 \/ Len(r) <= n \/ r[n + 1] \notin Keywords THEN NoMatch
             ELSE MatchRest(r[n + 1], Drop(r, n + 1))

\* what may follow the keyword in the messages that are tried
Tails ==
    {<<>>, <<Space>>, <<Space, Space>>, <<Space, "x">>, <<"x">>,
     <<Space, "x", Space>>}

\* the messages that are tried
Messages ==
    {<<Prefix, Space, k>> \o tl : k \in Keywords, tl \in Tails}
        \cup {<<Prefix>>, <<Prefix, Space>>, <<Prefix, Space, "x">>, <<"x">>,
              <<Prefix, "tishi">>}

\* the texts the pattern is applied to when the parser is checked on its own:
\* the messages above, and a keyword that follows the prefix directly, after
\* two blanks, or in a text that does not begin with the prefix
Texts ==
    Messages
        \cup {<<Prefix, k>> : k \in Keywords}
        \cup {<<Prefix, Space, Space, k>> : k \in Keywords}
        \cup {<<"x", Prefix, Space, k>> : k \in Keywords}

\* no message has been matched against command_pattern
Unmatched == [applied |-> FALSE, matched |-> FALSE, action |-> "", rest |-> <<>>]

\* the outcome of re.match(command_pattern, m): whether it matched, and the
\* groups action and rest ("" and <<>> for a group that is None)
Groupdict(m) ==
    [applied |-> TRUE, matched |-> Match(m).matched, action |-> Match(m).action,
     rest |-> Match(m).rest]

----------------------------------------------------------------------------
(* The collaborator: _call_llm_api.  An HTTP exchange ends with status 200  *)
(* and a well-formed body, status 200 and a malformed body, another status, *)
(* or an exception (transport error, timeout).                              *)

HttpOutcomes(contents) ==
    {[kind |-> "ok", content |-> c] : c \in contents}
        \cup {[kind |-> k, content |-> <<>>] :
                  k \in {"malformed", "non200", "exception"}}

call_llm_api(http) == IF http.kind = "ok" THEN Strip(http.content) ELSE <<>>

\* bodies tried for the two puzzle-generation prompts
GenContents == {<<>>, <<Space>>, <<"P">>, <<Space, "Q", Space>>}

\* bodies tried for the guess-classification prompt
ClassContents ==
    {<<>>, <<"shi">>, <<Space, "shi", Space>>, <<"bu", "shi">>, <<"shi", "bu">>,
     <<"A">>}

\* bodies tried for the question, hint and clues prompts
TextContents == {<<>>, <<Space, "h">>}

----------------------------------------------------------------------------
(* Session dictionaries *)

\* a dict literal {} : no key is present
EmptyDict ==
    [keys |-> FALSE, current_question |-> <<>>, current_answer |-> <<>>,
     hints_used |-> 0, game_active |-> FALSE, guess_history |-> <<>>,
     game_over |-> FALSE]

\* dict.get(key, default)
Get(d, key, default) == IF d.keys THEN d[key] ELSE default

\* _handle_exit marking the game over, as Reveal does
ExitDictMarksOver ==
    [keys |-> TRUE, current_question |-> <<>>, current_answer |-> <<>>,
     hints_used |-> 0, game_active |-> FALSE, guess_history |-> <<>>,
     game_over |-> TRUE]

\* the dict written by _handle_exit
ExitDict ==
    [keys |-> TRUE, current_question |-> <<>>, current_answer |-> <<>>,
     hints_used |-> 0, game_active |-> FALSE, guess_history |-> <<>>,
     game_over |-> FALSE]

\* the dict written by _start_new_game
NewGameDict(question, answer) ==
    [keys |-> TRUE, current_question |-> question, current_answer |-> answer,
     hints_used |-> 0, game_active |-> TRUE, guess_history |-> <<>>,
     game_over |-> FALSE]

\* state.get("game_active", True)
IsActiveDefaultTrue(d) == Get(d, "game_active", TRUE)

\* state.get("game_active"), None counting as false
IsActive(d) == Get(d, "game_active", FALSE)

\* a game counts as over only once it is inactive as well
IsOverWhenInactive(d) == Get(d, "game_over", FALSE) /\ ~Get(d, "game_active", FALSE)

\* state.get("game_over"), None counting as false
IsOver(d) == Get(d, "game_over", FALSE)

\* the guard with "not" left out
StartBlockedWhenOver(d) == Get(d, "game_active", FALSE) /\ Get(d, "game_over", FALSE)

\* the guard left out
StartNeverBlocked(d) == FALSE

\* the guard of _start_new_game
StartBlocked(d) == Get(d, "game_active", FALSE) /\ ~Get(d, "game_over", FALSE)

HintLimit == 3

\* the guard with > for >=
HintsExhaustedOffByOne(d) == Get(d, "hints_used", 0) > HintLimit

\* the second guard of _handle_hint
HintsExhausted(d) == Get(d, "hints_used", 0) >= HintLimit

\* state["hints_used"] = state.get("hints_used", 0) + 1
WithHint(d) == [d EXCEPT !.keys = TRUE, !.hints_used = Get(d, "hints_used", 0) + 1]

\* entries of guess_history: _handle_question appends a dict with the keys
\* "type" and "content", _handle_guess appends the guess string itself
QuestionEntry(question) == [kind |-> "dict", content |-> question]

GuessEntry(guess) == [kind |-> "str", content |-> guess]

\* the entry inserted at the front of guess_history
WithEntryInFront(d, entry) ==
    [d EXCEPT !.keys = TRUE, !.guess_history = <<entry>> \o d.guess_history]

\* state.setdefault("guess_history", []).append(entry)
WithEntry(d, entry) ==
    [d EXCEPT !.keys = TRUE, !.guess_history = Append(d.guess_history, entry)]

\* a win that also clears game_active, as Reveal does
WithWinInactive(d) ==
    [d EXCEPT !.keys = TRUE, !.game_active = FALSE, !.game_over = TRUE]

\* state["game_over"] = True
WithWin(d) == [d EXCEPT !.keys = TRUE, !.game_over = TRUE]

\* Reveal without the second assignment
WithRevealActiveOnly(d) == [d EXCEPT !.keys = TRUE, !.game_active = FALSE]

\* game_state["game_active"] = False; game_state["game_over"] = True
WithReveal(d) == [d EXCEPT !.keys = TRUE, !.game_active = FALSE, !.game_over = TRUE]

\* item["content"] for item in guess_history: indexing a str with a str
\* raises TypeError
CluesRaises(d) ==
    \E i \in DOMAIN Get(d, "guess_history", <<>>) :
        Get(d, "guess_history", <<>>)[i].kind = "str"

\* a classification by startswith instead of ==
ClassifyByPrefix(llm_response) ==
    IF llm_response # <<>> /\ Head(llm_response) = "shi" THEN "win"
    ELSE IF llm_response = <<"bu", "shi">> THEN "incorrect"
    ELSE "unrelated"

\* the three-way classification of _handle_guess
Classify(llm_response) ==
    IF llm_response = <<"shi">> THEN "win"
    ELSE IF llm_response = <<"bu", "shi">> THEN "incorrect"
    ELSE "unrelated"

----------------------------------------------------------------------------
(* State *)

\* the chat identities commands arrive from (group_id)
GroupSeq == <<"g1">>

Groups == {GroupSeq[i] : i \in DOMAIN GroupSeq}

Tasks == 1 .. NumTasks

\* the absent reference
None == 0

\* every dict that is alive is referenced from game_states or from the local
\* variable state / game_state of a command in flight; one more can be created
ObjIds == 1 .. (Len(GroupSeq) + NumTasks + 1)

\* fallback of the question reply: llm_response.strip() or "(no answer)"
NoAnswerText == <<"?">>

\* what game_states holds for group g: no entry, or the contents of its dict
View(gs, hp, g) ==
    IF gs[g] = None THEN [exists |-> FALSE, dict |-> EmptyDict]
    ELSE [exists |-> TRUE, dict |-> hp[gs[g]]]

NoView == [exists |-> FALSE, dict |-> EmptyDict]

\* the local variables of a command that is not running
IdleTask ==
    [group |-> "", action |-> "", rest_input |-> <<>>, state |-> None,
     question |-> <<>>, llm_response |-> <<>>, calls |-> 0, replies |-> 0,
     reply |-> "", text |-> <<>>,
     num |-> 0, ok |-> FALSE, reason |-> "", raised |-> FALSE, before |-> NoView]

\* the references that keep a dict alive, in a fixed order
Roots(gs, tk) ==
    [i \in 1 .. (Len(GroupSeq) + NumTasks) |->
        IF i <= Len(GroupSeq) THEN gs[GroupSeq[i]] ELSE tk[i - Len(GroupSeq)].state]

Live(gs, tk) == {Roots(gs, tk)[i] : i \in DOMAIN Roots(gs, tk)} \ {None}

\* the reference of a newly created dict
FreeId(gs, tk) == CHOOSE o \in ObjIds : o \notin Live(gs, tk)

\* References are renamed after each step to the order in which Roots meets
\* them, and dicts no reference reaches are dropped (garbage collection):
\* object identity matters, the value of a reference does not.
FirstPos(r, o) == CHOOSE i \in DOMAIN r : r[i] = o /\ \A j \in 1 .. (i - 1) : r[j] # o

NewId(r, o) ==
    IF o = None THEN None
    ELSE Cardinality({r[j] : j \in 1 .. FirstPos(r, o)} \ {None})

CanonStates(gs, tk) == [g \in Groups |-> NewId(Roots(gs, tk), gs[g])]

CanonHeap(gs, hp, tk) ==
    [n \in ObjIds |->
        IF \E o \in Live(gs, tk) : NewId(Roots(gs, tk), o) = n
        THEN hp[CHOOSE o \in Live(gs, tk) : NewId(Roots(gs, tk), o) = n]
        ELSE EmptyDict]

CanonTasks(gs, tk) ==
    [t \in Tasks |-> [tk[t] EXCEPT !.state = NewId(Roots(gs, tk), tk[t].state)]]

\* the step's result: the store, and the positions and locals of the commands;
\* a step that takes a task from idle is the arrival of a command, and the
\* arrivals are counted when commands may overlap
Commit(gs, hp, pcs, tk) ==
    /\ game_states' = CanonStates(gs, tk)
    /\ heap' = CanonHeap(gs, hp, tk)
    /\ pc' = pcs
    /\ task' = CanonTasks(gs, tk)
    /\ begun' = IF limit > 1 /\ \E t \in Tasks : pc[t] = "idle" /\ pcs[t] # "idle"
                THEN begun + 1
                ELSE begun
    /\ UNCHANGED <<limit, message, matched_groups>>

TypeOK ==
    /\ game_states \in [Groups -> ObjIds \cup {None}]
    /\ DOMAIN heap = ObjIds
    /\ pc \in [Tasks ->
                {"idle", "question_llm", "hint_llm", "clues_llm", "guess_llm",
                 "reveal_sent", "start_question_llm", "start_answer_llm", "done"}]
    /\ DOMAIN task = Tasks
    /\ limit \in 1 .. NumTasks
    /\ begun \in 0 .. MaxCommands
    /\ message \in Texts \cup {<<>>}
    /\ matched_groups \in {Unmatched} \cup {Groupdict(m) : m \in Texts}

\* game_states = {} at import; no command is running
Loaded ==
    /\ game_states = [g \in Groups |-> None]
    /\ heap = [o \in ObjIds |-> EmptyDict]
    /\ pc = [t \in Tasks |-> "idle"]
    /\ task = [t \in Tasks |-> IdleTask]
    /\ begun = 0
    /\ message = <<>>
    /\ matched_groups = Unmatched

\* the host handles commands one at a time
Init == Loaded /\ limit = 1

\* the host starts a command while others wait at an await
InitConc == Loaded /\ limit = NumTasks

----------------------------------------------------------------------------
(* Inputs of a command and the steps every handler shares *)

\* chat_stream found or not, plugin.enabled, llm.api_url, llm.api_key
Configs ==
    [ctx : BOOLEAN, enabled : BOOLEAN, api_url : {<<>>, <<"u">>},
     api_key : {<<>>, <<"k">>}]

\* none of the three early returns of execute is taken
ConfigOk(c) == c.ctx /\ c.enabled /\ Truthy(c.api_url) /\ Truthy(c.api_key)

\* the branch selected by the keyword alone, without "and rest_input"
DispatchByKeyword(action, rest_input) ==
    IF action = "wenti" THEN "question"
    ELSE IF action = "tishi" THEN "hint"
    ELSE IF action = "zhenglixiansuo" THEN "clues"
    ELSE IF action = "tangmian" THEN "show"
    ELSE IF action = "caimi" THEN "guess"
    ELSE IF action = "jiemi" THEN "reveal"
    ELSE IF action = "tuichu" THEN "exit"
    ELSE IF action = "bangzhu" THEN "help"
    ELSE "start"

\* the branch of execute an action and its argument select
Dispatch(action, rest_input) ==
    IF action = "wenti" /\ Truthy(rest_input) THEN "question"
    ELSE IF action = "tishi" THEN "hint"
    ELSE IF action = "zhenglixiansuo" THEN "clues"
    ELSE IF action = "tangmian" THEN "show"
    ELSE IF action = "caimi" /\ Truthy(rest_input) THEN "guess"
    ELSE IF action = "jiemi" THEN "reveal"
    ELSE IF action = "tuichu" THEN "exit"
    ELSE IF action = "bangzhu" THEN "help"
    ELSE "start"

\* A command whose reply is out only has to return.  Its return touches
\* nothing another command reads, so it is taken before any other step.
Quiet == \A u \in Tasks : pc[u] # "done"

InFlight == Cardinality({u \in Tasks : pc[u] # "idle"})

\* the host runs a new command as task t: the idle task of the lowest number,
\* when fewer than limit commands are in flight
Turn(t) ==
    /\ pc[t] = "idle"
    /\ \A u \in Tasks : u < t => pc[u] # "idle"
    /\ InFlight < limit
    /\ begun < MaxCommands
    /\ Quiet

\* task t is resumed at the await it waits at
At(t, where) == pc[t] = where /\ Quiet

\* action and rest_input of execute.  before is no local of the code: it keeps
\* what game_states held for the chat when the command arrived, for the
\* properties that compare a command's effect with it; it is kept when commands
\* are handled one at a time, the only case in which it is compared.
Started(k, g) ==
    [IdleTask EXCEPT !.group = g, !.action = k.action, !.rest_input = k.rest_input,
                     !.before = IF limit = 1 THEN View(game_states, heap, g)
                                ELSE NoView]

\* game_states after "if group_id not in game_states: game_states[group_id] = {}"
EnsStates(g) ==
    IF game_states[g] = None
    THEN [game_states EXCEPT ![g] = FreeId(game_states, task)]
    ELSE game_states

EnsHeap(g) ==
    IF game_states[g] = None
    THEN [heap EXCEPT ![FreeId(game_states, task)] = EmptyDict]
    ELSE heap

\* await self.send_text(...)
Send(r, reply, text, num) ==
    [r EXCEPT !.reply = reply, !.text = text, !.num = num, !.replies = @ + 1]

\* the last statement before "return ok, reason, True": the command's reply is
\* out (send_text is awaited) and its result is fixed
Done(t, gs, hp, r, ok, reason) ==
    Commit(gs, hp, [pc EXCEPT ![t] = "done"],
           [task EXCEPT ![t] = [r EXCEPT !.state = None, !.ok = ok, !.reason = reason]])

\* an exception leaves execute: no reply, no result
Raise(t, gs, hp, r) ==
    Commit(gs, hp, [pc EXCEPT ![t] = "done"],
           [task EXCEPT ![t] = [r EXCEPT !.state = None, !.raised = TRUE]])

\* the command waits at an await; its locals are kept
Suspend(t, gs, hp, r, where) ==
    Commit(gs, hp, [pc EXCEPT ![t] = where], [task EXCEPT ![t] = r])

----------------------------------------------------------------------------
(* Handlers, up to their first await or their return *)

start_new_game(t, r, gs, hp) ==
    LET state == View(gs, hp, r.group).dict
    IN  IF StartBlocked(state)
        THEN Done(t, gs, hp, Send(r, "start_rejected", <<>>, 0), FALSE,
                  "game_in_progress")
        ELSE Suspend(t, gs, hp, [r EXCEPT !.calls = @ + 1], "start_question_llm")

\* _handle_question without its check of game_active
handle_question_unguarded(t, r, gs, hp) ==
    LET obj == gs[r.group]
        state == hp[obj]
    IN  /\ Len(state.guess_history) < MaxHist
        /\ Suspend(t, gs,
                   [hp EXCEPT ![obj] = WithEntry(@, QuestionEntry(r.rest_input))],
                   [r EXCEPT !.calls = @ + 1], "question_llm")

handle_question(t, r, gs, hp) ==
    LET obj == gs[r.group]
        state == hp[obj]
    IN  IF ~IsActive(state) THEN start_new_game(t, r, gs, hp)
        ELSE /\ Len(state.guess_history) < MaxHist
             /\ Suspend(t, gs,
                        [hp EXCEPT ![obj] = WithEntry(@, QuestionEntry(r.rest_input))],
                        [r EXCEPT !.calls = @ + 1], "question_llm")

handle_hint(t, r, gs, hp) ==
    LET obj == gs[r.group]
        state == hp[obj]
    IN  IF ~IsActive(state)
        THEN Done(t, gs, hp, Send(r, "no_game", <<>>, 0), FALSE, "no_game")
        ELSE IF HintsExhausted(state)
        THEN Done(t, gs, hp, Send(r, "hints_used_up", <<>>, 0), FALSE,
                  "hints_exhausted")
        ELSE Suspend(t, gs, hp, [r EXCEPT !.calls = @ + 1, !.state = obj],
                     "hint_llm")

handle_clues(t, r, gs, hp) ==
    LET obj == gs[r.group]
        state == hp[obj]
    IN  IF ~IsActive(state)
        THEN Done(t, gs, hp, Send(r, "no_game", <<>>, 0), FALSE, "no_game")
        ELSE IF CluesRaises(state) THEN Raise(t, gs, hp, r)
        ELSE Suspend(t, gs, hp, [r EXCEPT !.calls = @ + 1], "clues_llm")

show_puzzle(t, r, gs, hp) ==
    LET state == hp[gs[r.group]]
    IN  IF ~IsActive(state)
        THEN Done(t, gs, hp, Send(r, "no_game", <<>>, 0), FALSE, "no_game")
        ELSE Done(t, gs, hp,
                  Send(r, "show_puzzle", Get(state, "current_question", <<>>), 0),
                  TRUE, "show_puzzle")

handle_guess(t, r, gs, hp) ==
    LET obj == gs[r.group]
        state == hp[obj]
    IN  IF ~IsActive(state)
        THEN Done(t, gs, hp, Send(r, "no_game", <<>>, 0), FALSE, "no_game")
        ELSE IF IsOver(state)
        THEN Done(t, gs, hp, Send(r, "game_over", <<>>, 0), FALSE, "game_over")
        ELSE /\ Len(state.guess_history) < MaxHist
             /\ Suspend(t, gs, hp, [r EXCEPT !.calls = @ + 1, !.state = obj],
                        "guess_llm")

reveal(t, r, gs, hp) ==
    LET obj == gs[r.group]
        game_state == hp[obj]
    IN  IF ~Get(game_state, "game_active", FALSE)
        THEN Done(t, gs, hp, Send(r, "no_game_reveal", <<>>, 0), FALSE, "no_game")
        ELSE Suspend(t, gs, hp,
                     [Send(r, "reveal", Get(game_state, "current_answer", <<"-">>), 0)
                         EXCEPT !.state = obj],
                     "reveal_sent")

handle_exit(t, r, gs, hp) ==
    LET new == FreeId(gs, task)
    IN  Done(t, [gs EXCEPT ![r.group] = new], [hp EXCEPT ![new] = ExitDict],
             Send(r, "exit", <<>>, 0), TRUE, "exit")

help(t, r, gs, hp) == Done(t, gs, hp, Send(r, "help", <<>>, 0), TRUE, "help")

----------------------------------------------------------------------------
(* execute, from the arrival of a message to the first await or the return *)

\* action and rest_input of the messages command_pattern matches
Commands ==
    {[action |-> Match(m).action, rest_input |-> Strip(Match(m).rest)] :
        m \in {n \in Messages : Match(n).matched}}

\* the commands execute dispatches to branch
Dispatched(branch) == {k \in Commands : Dispatch(k.action, k.rest_input) = branch}

\* a configuration under which none of the early returns is taken
Configured == \E c \in Configs : ConfigOk(c)

\* chat_stream is None
RejectNoContext(t) ==
    /\ Turn(t)
    /\ \E c \in Configs : ~c.ctx
    /\ \E k \in Commands, g \in Groups :
          /\ Done(t, game_states, heap, Send(Started(k, g), "no_context", <<>>, 0),
                  FALSE, "no_chat_stream")

\* plugin.enabled is false
RejectDisabled(t) ==
    /\ Turn(t)
    /\ \E c \in Configs : c.ctx /\ ~c.enabled
    /\ \E k \in Commands, g \in Groups :
          /\ Done(t, game_states, heap, Send(Started(k, g), "disabled", <<>>, 0),
                  FALSE, "plugin_disabled")

\* the check of api_url and api_key placed after the dict of the chat is made
RejectConfigAfterInit(t) ==
    /\ Turn(t)
    /\ \E c \in Configs : c.ctx /\ c.enabled /\ ~(Truthy(c.api_url) /\ Truthy(c.api_key))
    /\ \E k \in Commands, g \in Groups :
          /\ Done(t, EnsStates(g), EnsHeap(g), Send(Started(k, g), "bad_config", <<>>, 0),
                  FALSE, "api_config")

\* llm.api_url or llm.api_key is empty
RejectConfig(t) ==
    /\ Turn(t)
    /\ \E c \in Configs : c.ctx /\ c.enabled /\ ~(Truthy(c.api_url) /\ Truthy(c.api_key))
    /\ \E k \in Commands, g \in Groups :
          /\ Done(t, game_states, heap, Send(Started(k, g), "bad_config", <<>>, 0),
                  FALSE, "api_config")

Question(t) ==
    /\ Turn(t)
    /\ Configured
    /\ \E k \in Dispatched("question"), g \in Groups :
          handle_question(t, Started(k, g), EnsStates(g), EnsHeap(g))

Hint(t) ==
    /\ Turn(t)
    /\ Configured
    /\ \E k \in Dispatched("hint"), g \in Groups :
          handle_hint(t, Started(k, g), EnsStates(g), EnsHeap(g))

Clues(t) ==
    /\ Turn(t)
    /\ Configured
    /\ \E k \in Dispatched("clues"), g \in Groups :
          handle_clues(t, Started(k, g), EnsStates(g), EnsHeap(g))

ShowPuzzle(t) ==
    /\ Turn(t)
    /\ Configured
    /\ \E k \in Dispatched("show"), g \in Groups :
          show_puzzle(t, Started(k, g), EnsStates(g), EnsHeap(g))

Guess(t) ==
    /\ Turn(t)
    /\ Configured
    /\ \E k \in Dispatched("guess"), g \in Groups :
          handle_guess(t, Started(k, g), EnsStates(g), EnsHeap(g))

Reveal(t) ==
    /\ Turn(t)
    /\ Configured
    /\ \E k \in Dispatched("reveal"), g \in Groups :
          reveal(t, Started(k, g), EnsStates(g), EnsHeap(g))

Exit(t) ==
    /\ Turn(t)
    /\ Configured
    /\ \E k \in Dispatched("exit"), g \in Groups :
          handle_exit(t, Started(k, g), EnsStates(g), EnsHeap(g))

Help(t) ==
    /\ Turn(t)
    /\ Configured
    /\ \E k \in Dispatched("help"), g \in Groups :
          help(t, Started(k, g), EnsStates(g), EnsHeap(g))

\* the else branch of execute
Start(t) ==
    /\ Turn(t)
    /\ Configured
    /\ \E k \in Dispatched("start"), g \in Groups :
          start_new_game(t, Started(k, g), EnsStates(g), EnsHeap(g))

----------------------------------------------------------------------------
(* The handlers resumed after an await *)

\* reply = llm_response.strip() or the fallback text
QuestionReply(llm_response) ==
    IF Truthy(Strip(llm_response)) THEN Strip(llm_response) ELSE NoAnswerText

QuestionResume(t) ==
    /\ At(t, "question_llm")
    /\ \E http \in HttpOutcomes(TextContents) :
          Done(t, game_states, heap,
               Send(task[t], "answer", QuestionReply(call_llm_api(http)), 0),
               TRUE, "question_answered")

HintResume(t) ==
    /\ At(t, "hint_llm")
    /\ \E http \in HttpOutcomes(TextContents) :
          LET hint == call_llm_api(http)
              obj == task[t].state
              hp == [heap EXCEPT ![obj] = WithHint(@)]
              gs == [game_states EXCEPT ![task[t].group] = obj]
          IN  Done(t, gs, hp, Send(task[t], "hint", Strip(hint), hp[obj].hints_used),
                   TRUE, "hint_done")

CluesResume(t) ==
    /\ At(t, "clues_llm")
    /\ \E http \in HttpOutcomes(TextContents) :
          Done(t, game_states, heap,
               Send(task[t], "clues", Strip(call_llm_api(http)), 0), TRUE,
               "clues_done")

\* the dict after lines 261-266: the guess is appended, a win sets game_over
AfterGuess(state, guess, llm_response) ==
    IF Classify(llm_response) = "win"
    THEN WithWin(WithEntry(state, GuessEntry(guess)))
    ELSE WithEntry(state, GuessEntry(guess))

\* the reply of _handle_guess
GuessReply(r, state, llm_response) ==
    IF Classify(llm_response) = "win"
    THEN Send(r, "win", Get(state, "current_answer", <<>>), 0)
    ELSE IF Classify(llm_response) = "incorrect"
    THEN Send(r, "incorrect", <<>>, Get(state, "hints_used", 0))
    ELSE Send(r, "unrelated", <<>>, 0)

GuessResume(t) ==
    /\ At(t, "guess_llm")
    /\ \E http \in HttpOutcomes(ClassContents) :
          LET llm_response == Lower(Strip(call_llm_api(http)))
              obj == task[t].state
              hp == [heap EXCEPT
                        ![obj] = AfterGuess(@, task[t].rest_input, llm_response)]
              gs == [game_states EXCEPT ![task[t].group] = obj]
          IN  Done(t, gs, hp,
                   GuessReply([task[t] EXCEPT !.llm_response = llm_response],
                              hp[obj], llm_response),
                   TRUE, "guess_done")

\* execute after the reveal reply was sent
RevealWrite(t) ==
    /\ At(t, "reveal_sent")
    /\ LET obj == task[t].state
           hp == [heap EXCEPT ![obj] = WithReveal(@)]
           gs == [game_states EXCEPT ![task[t].group] = obj]
       IN  Done(t, gs, hp, task[t], TRUE, "revealed")

\* _start_new_game after the question prompt was answered
StartQuestionResume(t) ==
    /\ At(t, "start_question_llm")
    /\ \E http \in HttpOutcomes(GenContents) :
          /\ Commit(game_states, heap, [pc EXCEPT ![t] = "start_answer_llm"],
                    [task EXCEPT ![t].question = Strip(call_llm_api(http)),
                                 ![t].calls = @ + 1])

\* _start_new_game with its guard checked again before the write
StartAnswerResumeGuarded(t) ==
    /\ At(t, "start_answer_llm")
    /\ \E http \in HttpOutcomes(GenContents) :
          LET answer == Strip(call_llm_api(http))
              new == FreeId(game_states, task)
              gs == [game_states EXCEPT ![task[t].group] = new]
              hp == [heap EXCEPT ![new] = NewGameDict(task[t].question, answer)]
          IN  IF StartBlocked(View(game_states, heap, task[t].group).dict)
              THEN Done(t, game_states, heap,
                        Send(task[t], "start_rejected", <<>>, 0), FALSE,
                        "game_in_progress")
              ELSE Done(t, gs, hp, Send(task[t], "new_puzzle", task[t].question, 0),
                        TRUE, "new_puzzle")

\* _start_new_game after the answer prompt was answered
StartAnswerResume(t) ==
    /\ At(t, "start_answer_llm")
    /\ \E http \in HttpOutcomes(GenContents) :
          LET answer == Strip(call_llm_api(http))
              new == FreeId(game_states, task)
              gs == [game_states EXCEPT ![task[t].group] = new]
              hp == [heap EXCEPT ![new] = NewGameDict(task[t].question, answer)]
          IN  Done(t, gs, hp, Send(task[t], "new_puzzle", task[t].question, 0),
                   TRUE, "new_puzzle")

\* the coroutine of execute ends and its locals are dropped
Return(t) ==
    /\ pc[t] = "done"
    /\ Commit(game_states, heap, [pc EXCEPT ![t] = "idle"],
              [task EXCEPT ![t] = IdleTask])

----------------------------------------------------------------------------
(* Specifications *)

Begin(t) ==
    \/ RejectNoContext(t)
    \/ RejectDisabled(t)
    \/ RejectConfig(t)
    \/ Question(t)
    \/ Hint(t)
    \/ Clues(t)
    \/ ShowPuzzle(t)
    \/ Guess(t)
    \/ Reveal(t)
    \/ Exit(t)
    \/ Help(t)
    \/ Start(t)

Resume(t) ==
    \/ QuestionResume(t)
    \/ HintResume(t)
    \/ CluesResume(t)
    \/ GuessResume(t)
    \/ RevealWrite(t)
    \/ StartQuestionResume(t)
    \/ StartAnswerResume(t)
    \/ Return(t)

Next == \E t \in Tasks : Begin(t) \/ Resume(t)

\* commands handled one at a time
Spec == Init /\ [][Next]_vars

\* Every command is its own coroutine: a message may arrive while others wait
\* at an await.  The commands that arrive are those that write game_states:
\* start-new-game, Hint, Guess and Exit.
NextConc ==
    \E t \in Tasks :
        \/ Start(t)
        \/ Hint(t)
        \/ Guess(t)
        \/ Exit(t)
        \/ StartQuestionResume(t)
        \/ StartAnswerResume(t)
        \/ HintResume(t)
        \/ GuessResume(t)
        \/ Return(t)

SpecConc == InitConc /\ [][NextConc]_vars

\* The path of a message up to execute: the host receives a text, applies
\* command_pattern to it, and either hands the groups to the command, which
\* consumes the message (intercept_message), or passes the message on.
Arrive ==
    /\ message = <<>>
    /\ message' \in Texts
    /\ UNCHANGED <<game_states, heap, pc, task, limit, begun, matched_groups>>

ApplyPattern ==
    /\ message # <<>> /\ ~matched_groups.applied
    /\ matched_groups' = Groupdict(message)
    /\ UNCHANGED <<game_states, heap, pc, task, limit, begun, message>>

Intercept ==
    /\ matched_groups.applied /\ matched_groups.matched
    /\ message' = <<>> /\ matched_groups' = Unmatched
    /\ UNCHANGED <<game_states, heap, pc, task, limit, begun>>

PassOn ==
    /\ matched_groups.applied /\ ~matched_groups.matched
    /\ message' = <<>> /\ matched_groups' = Unmatched
    /\ UNCHANGED <<game_states, heap, pc, task, limit, begun>>

\* the branch of execute a matched message reaches: action and rest_input
\* are the groups, None read as "", stripped
Branch(mg) == Dispatch(mg.action, Strip(mg.rest))

NextParse == Arrive \/ ApplyPattern \/ Intercept \/ PassOn

\* the parser on its own
SpecParse == Init /\ [][NextParse]_vars

----------------------------------------------------------------------------
(* Properties.  They are stated on the session of the data model, read   *)
(* from game_states when a command has sent its reply and is about to       *)
(* return (pc = "done"), against what it held when the command arrived.     *)

\* the fields of a session; a chat without a dict, or with the dict {}, has
\* the empty defaults
Session(v) ==
    IF v.exists /\ v.dict.keys
    THEN [active |-> v.dict.game_active, over |-> v.dict.game_over,
          hintsUsed |-> v.dict.hints_used,
          currentQuestion |-> v.dict.current_question,
          currentAnswer |-> v.dict.current_answer,
          history |-> v.dict.guess_history]
    ELSE [active |-> FALSE, over |-> FALSE, hintsUsed |-> 0,
          currentQuestion |-> <<>>, currentAnswer |-> <<>>, history |-> <<>>]

\* the session when the command of task t arrived
Was(t) == Session(task[t].before)

\* the session of the command's chat now
Now(t) == Session(View(game_states, heap, task[t].group))

InProgress(x) == x.active /\ ~x.over

\* the command of task t passed the early returns of execute, was dispatched
\* to branch and has run to its end
Completed(t, branch) ==
    /\ pc[t] = "done"
    /\ task[t].reply \notin {"no_context", "disabled", "bad_config"}
    /\ Dispatch(task[t].action, task[t].rest_input) = branch

\* C1: a Hint on an active game with fewer than 3 hints used is serviced with
\* one collaborator call and raises hintsUsed by exactly 1; with 3 hints used
\* it is rejected with the "hints used up" reply, makes no collaborator call
\* and leaves the session as it was, hintsUsed at 3; a new puzzle starts with
\* hintsUsed = 0, and hintsUsed is never above 3.
C1_HintCap ==
    /\ \A t \in Tasks :
          /\ Completed(t, "hint") /\ Was(t).active /\ Was(t).hintsUsed < 3
                => /\ task[t].reply = "hint" /\ task[t].ok /\ ~task[t].raised
                   /\ task[t].calls = 1 /\ task[t].replies = 1
                   /\ Now(t).hintsUsed = Was(t).hintsUsed + 1
                   /\ task[t].num = Now(t).hintsUsed
          /\ Completed(t, "hint") /\ Was(t).active /\ Was(t).hintsUsed >= 3
                => /\ task[t].reply = "hints_used_up" /\ ~task[t].ok
                   /\ task[t].calls = 0 /\ task[t].replies = 1
                   /\ Now(t) = Was(t)
                   /\ Now(t).hintsUsed = 3
          /\ pc[t] = "done" /\ task[t].reply = "new_puzzle"
                => Now(t).hintsUsed = 0
    /\ \A g \in Groups : Session(View(game_states, heap, g)).hintsUsed <= 3

\* a fourth Hint on a puzzle was rejected
C1_Witness ==
    \E t \in Tasks :
        /\ Completed(t, "hint") /\ Was(t).active /\ Was(t).hintsUsed = 3
        /\ task[t].reply = "hints_used_up"

\* C2 as claimed: a Guess with text on an InProgress session whose
\* classification is exactly "shi" leaves active = false and over = true, and
\* the reply contains currentAnswer.
C2_WinFinishes ==
    \A t \in Tasks :
        Completed(t, "guess") /\ InProgress(Was(t)) /\ task[t].llm_response = <<"shi">>
            => /\ ~Now(t).active /\ Now(t).over
               /\ task[t].reply = "win" /\ task[t].text = Was(t).currentAnswer

\* C2 as amended: a Guess with text on an InProgress session whose
\* classification is exactly "shi" sets over = true and leaves active = true,
\* and the reply contains currentAnswer.
C2_WinSetsOver ==
    \A t \in Tasks :
        Completed(t, "guess") /\ InProgress(Was(t)) /\ task[t].llm_response = <<"shi">>
            => /\ Now(t).active /\ Now(t).over
               /\ task[t].reply = "win" /\ task[t].text = Was(t).currentAnswer
               /\ Now(t).currentAnswer = Was(t).currentAnswer
               /\ task[t].ok /\ task[t].replies = 1

\* a guess on an InProgress session was classified "shi"
C2_Witness ==
    \E t \in Tasks :
        /\ Completed(t, "guess") /\ InProgress(Was(t))
        /\ task[t].llm_response = <<"shi">> /\ Was(t).currentAnswer # <<>>

\* C3: for a Guess on an InProgress session, over becomes true exactly when
\* the classification is "shi"; "bu shi" yields the incorrect reply, which
\* reports hintsUsed; every other output, the empty one included, yields the
\* unrelated reply; in both non-win branches active, over, hintsUsed,
\* currentQuestion and currentAnswer are unchanged and the session stays
\* InProgress.
C3_ThreeWay ==
    \A t \in Tasks :
        Completed(t, "guess") /\ InProgress(Was(t))
            => /\ Now(t).over <=> task[t].llm_response = <<"shi">>
               /\ task[t].reply = "win" <=> task[t].llm_response = <<"shi">>
               /\ task[t].llm_response = <<"bu", "shi">>
                     => task[t].reply = "incorrect" /\ task[t].num = Was(t).hintsUsed
               /\ task[t].llm_response \notin {<<"shi">>, <<"bu", "shi">>}
                     => task[t].reply = "unrelated"
               /\ task[t].llm_response # <<"shi">>
                     => /\ Now(t).active = Was(t).active
                        /\ Now(t).over = Was(t).over
                        /\ Now(t).hintsUsed = Was(t).hintsUsed
                        /\ Now(t).currentQuestion = Was(t).currentQuestion
                        /\ Now(t).currentAnswer = Was(t).currentAnswer
                        /\ InProgress(Now(t))
               /\ task[t].replies = 1 /\ task[t].calls = 1

\* an output that begins with "shi" without being it was classified unrelated
C3_Witness ==
    \E t \in Tasks :
        /\ Completed(t, "guess") /\ InProgress(Was(t))
        /\ task[t].llm_response = <<"shi", "bu">> /\ task[t].reply = "unrelated"

\* C4: a command dispatched to start-new-game while the session is InProgress
\* makes no collaborator call, leaves game_states as it was and only sends the
\* rejection reply, with a failure result.
C4_StartGuard ==
    \A t \in Tasks :
        Completed(t, "start") /\ InProgress(Was(t))
            => /\ task[t].reply = "start_rejected" /\ ~task[t].ok /\ ~task[t].raised
               /\ task[t].calls = 0 /\ task[t].replies = 1
               /\ View(game_states, heap, task[t].group) = task[t].before

\* the question keyword without text was rejected on a game with hints used
\* and a history
C4_Witness ==
    \E t \in Tasks :
        /\ Completed(t, "start") /\ InProgress(Was(t)) /\ task[t].action = "wenti"
        /\ Was(t).hintsUsed > 0 /\ Was(t).history # <<>>
        /\ task[t].reply = "start_rejected"

\* C5: after an Exit command the session has active = false, over = false,
\* hintsUsed = 0, an empty history, an empty currentQuestion and an empty
\* currentAnswer, whatever it was before, and Exit succeeds.
C5_ExitResets ==
    \A t \in Tasks :
        Completed(t, "exit")
            => /\ task[t].ok /\ ~task[t].raised /\ task[t].replies = 1
               /\ task[t].reply = "exit"
               /\ View(game_states, heap, task[t].group).exists
               /\ View(game_states, heap, task[t].group).dict.keys
               /\ Now(t) = [active |-> FALSE, over |-> FALSE, hintsUsed |-> 0,
                            currentQuestion |-> <<>>, currentAnswer |-> <<>>,
                            history |-> <<>>]

\* Exit was run on a solved game with hints used and a history
C5_Witness ==
    \E t \in Tasks :
        /\ Completed(t, "exit") /\ Was(t).active /\ Was(t).over
        /\ Was(t).hintsUsed > 0 /\ Was(t).history # <<>>
        /\ Was(t).currentQuestion # <<>>

\* C6: Reveal on an InProgress session sends a reply containing currentAnswer
\* and leaves active = false and over = true with currentQuestion,
\* currentAnswer, hintsUsed and history unchanged; Reveal on a session without
\* an active game is rejected with a failure result and changes no field.
C6_Reveal ==
    \A t \in Tasks :
        /\ Completed(t, "reveal") /\ InProgress(Was(t))
              => /\ task[t].reply = "reveal" /\ task[t].text = Was(t).currentAnswer
                 /\ task[t].ok /\ ~task[t].raised /\ task[t].replies = 1
                 /\ ~Now(t).active /\ Now(t).over
                 /\ Now(t).currentQuestion = Was(t).currentQuestion
                 /\ Now(t).currentAnswer = Was(t).currentAnswer
                 /\ Now(t).hintsUsed = Was(t).hintsUsed
                 /\ Now(t).history = Was(t).history
        /\ Completed(t, "reveal") /\ ~Was(t).active
              => /\ task[t].reply = "no_game_reveal" /\ ~task[t].ok
                 /\ ~task[t].raised /\ task[t].replies = 1
                 /\ Now(t) = Was(t)

\* Reveal has ended an InProgress game with hints used and a history
C6_Witness ==
    \E t \in Tasks :
        /\ Completed(t, "reveal") /\ InProgress(Was(t))
        /\ Was(t).hintsUsed > 0 /\ Was(t).history # <<>>
        /\ Was(t).currentAnswer # <<>> /\ task[t].ok

\* C7: in every reachable state, a session with active = true has a non-empty
\* currentQuestion and a non-empty currentAnswer.
C7_ActiveHasPuzzle ==
    \A g \in Groups :
        Session(View(game_states, heap, g)).active
            => /\ Session(View(game_states, heap, g)).currentQuestion # <<>>
               /\ Session(View(game_states, heap, g)).currentAnswer # <<>>

\* C8 as claimed: a new puzzle is created only when the command found no
\* session for the id or a session with active = false.
C8_NewPuzzleOnlyWhenInactive ==
    \A t \in Tasks :
        pc[t] = "done" /\ task[t].reply = "new_puzzle" => ~Was(t).active

\* C8 as amended: a new puzzle (fresh currentQuestion and currentAnswer,
\* hintsUsed = 0, empty history) is created only when the command found no
\* session for the id or a session that is not InProgress; and no command
\* other than Exit changes the puzzle of a session that is InProgress.
C8_NewPuzzleOnlyWhenNotInProgress ==
    \A t \in Tasks :
        /\ pc[t] = "done" /\ task[t].reply = "new_puzzle"
              => /\ ~InProgress(Was(t))
                 /\ Now(t) = [active |-> TRUE, over |-> FALSE, hintsUsed |-> 0,
                              currentQuestion |-> task[t].question,
                              currentAnswer |-> Now(t).currentAnswer,
                              history |-> <<>>]
        /\ pc[t] = "done" /\ InProgress(Was(t)) /\ ~Completed(t, "exit")
              => /\ Now(t).currentQuestion = Was(t).currentQuestion
                 /\ Now(t).currentAnswer = Was(t).currentAnswer
                 /\ task[t].reply # "new_puzzle"

\* a start command has replaced the puzzle of a solved game, whose active flag
\* was still true
C8_Witness ==
    \E t \in Tasks :
        /\ Completed(t, "start") /\ task[t].reply = "new_puzzle"
        /\ Was(t).active /\ Was(t).over
        /\ Now(t).currentQuestion # Was(t).currentQuestion

\* C9: every command ends with exactly one reply and a result, never with an
\* exception.
C9_NoFaultEscapes ==
    \A t \in Tasks : pc[t] = "done" => ~task[t].raised /\ task[t].replies = 1

\* C10: Hint, Clues, ShowPuzzle, Guess with text and Reveal on a session
\* without an active game are rejected with a failure result, make no
\* collaborator call and leave every session field unchanged.
C10_NoGameRejects ==
    \A t \in Tasks :
        /\ pc[t] = "done"
        /\ \E b \in {"hint", "clues", "show", "guess", "reveal"} : Completed(t, b)
        /\ ~Was(t).active
        => /\ ~task[t].ok /\ ~task[t].raised
           /\ task[t].calls = 0 /\ task[t].replies = 1
           /\ task[t].reply \in {"no_game", "no_game_reveal"}
           /\ Now(t) = Was(t)

\* a Hint was rejected on a chat that had no dict yet
C10_Witness ==
    \E t \in Tasks :
        /\ Completed(t, "hint") /\ ~task[t].before.exists
        /\ task[t].reply = "no_game" /\ ~task[t].ok

\* C11: once a puzzle is over, by a winning Guess or by Reveal, every later
\* Guess with text on the session is rejected with a failure result: it makes
\* no collaborator call, appends nothing to history and changes no field of
\* the session.  (A new game or Exit sets over back to false.)
C11_OverRejectsGuess ==
    \A t \in Tasks :
        Completed(t, "guess") /\ Was(t).over
            => /\ task[t].reply \in {"game_over", "no_game"}
               /\ Was(t).active => task[t].reply = "game_over"
               /\ ~task[t].ok /\ ~task[t].raised
               /\ task[t].calls = 0 /\ task[t].replies = 1
               /\ Now(t).history = Was(t).history
               /\ Now(t) = Was(t)
               /\ View(game_states, heap, task[t].group) = task[t].before

\* a Guess was rejected on a game that an earlier Guess had won
C11_Witness ==
    \E t \in Tasks :
        /\ Completed(t, "guess") /\ Was(t).over /\ Was(t).active
        /\ Was(t).history # <<>> /\ task[t].reply = "game_over"

\* C12: a command that ends at one of the early returns of execute (no chat
\* context, plugin disabled, API URL or API key empty), whatever its action,
\* sends one rejection reply, has a failure result, makes no collaborator
\* call and leaves game_states as it was: no dict is created for the chat and
\* none is changed.
C12_EarlyRejectsMutateNothing ==
    \A t \in Tasks :
        pc[t] = "done" /\ task[t].reply \in {"no_context", "disabled", "bad_config"}
            => /\ ~task[t].ok /\ ~task[t].raised
               /\ task[t].calls = 0 /\ task[t].replies = 1
               /\ task[t].reason \in {"no_chat_stream", "plugin_disabled", "api_config"}
               /\ View(game_states, heap, task[t].group) = task[t].before
               /\ \A g \in Groups : ~task[t].before.exists /\ g = task[t].group
                                       => game_states[g] = None

\* an Exit was rejected for its configuration on a chat that has no dict
C12_Witness ==
    \E t \in Tasks :
        /\ pc[t] = "done" /\ task[t].reply = "bad_config"
        /\ task[t].action = "tuichu" /\ ~task[t].before.exists

\* C13: whenever the reply of a state-mutating command (new puzzle, Hint,
\* winning Guess, Reveal, Exit) has been sent, game_states already holds the
\* state the command leaves: no command sends its reply first and writes
\* afterwards.
C13_WriteBeforeReply ==
    \A t \in Tasks :
        pc[t] # "idle" /\ task[t].replies = 1
            => /\ task[t].reply = "new_puzzle"
                     => Now(t).active /\ ~Now(t).over /\ Now(t).hintsUsed = 0
               /\ task[t].reply = "hint" => Now(t).hintsUsed = Was(t).hintsUsed + 1
               /\ task[t].reply = "win" => Now(t).over
               /\ task[t].reply = "reveal" => ~Now(t).active /\ Now(t).over
               /\ task[t].reply = "exit" => ~Now(t).active /\ ~Now(t).over

\* C14: hintsUsed is at most 3 in every reachable state, also when several
\* commands for one chat are in flight, each suspended at its collaborator
\* call and resumed in any order.
C14_HintCapInFlight ==
    \A g \in Groups :
        /\ Session(View(game_states, heap, g)).hintsUsed <= HintLimit
        /\ \A t \in Tasks :
              pc[t] = "done" /\ task[t].reply = "hint" => task[t].num <= HintLimit

\* C15: nothing orders the commands of one chat.  A start command is admitted
\* whenever the session is not InProgress, also while another start command
\* is in flight; and a start command that has passed the guard writes its
\* puzzle when its second collaborator call returns, whatever game_states
\* holds by then, so that the puzzle another command stored in between is
\* replaced.
C15_StartsRace ==
    [][\A t \in Tasks :
          LET g == task[t].group
              h == task'[t].group
          IN  /\ pc[t] = "idle" /\ pc'[t] # "idle"
                 /\ Dispatch(task'[t].action, task'[t].rest_input) = "start"
                 /\ ~InProgress(Session(View(game_states, heap, h)))
                    => pc'[t] = "start_question_llm" /\ task'[t].replies = 0
              /\ pc[t] = "start_answer_llm" /\ pc'[t] = "done"
                    => /\ task'[t].reply = "new_puzzle" /\ task'[t].ok
                       /\ task'[t].calls = 2
                       /\ Session(View(game_states', heap', g)).active
                       /\ ~Session(View(game_states', heap', g)).over
                       /\ Session(View(game_states', heap', g)).currentQuestion
                             = task[t].question
                       /\ Session(View(game_states', heap', g)).hintsUsed = 0
                       /\ Session(View(game_states', heap', g)).history = <<>>]_vars

\* Two commands have arrived and one of them, task t, is still in flight past
\* the guard of _start_new_game with its question generated, while the
\* session is InProgress with another question: the other command was a start
\* command too, t passed the guard before that one wrote, and the write of t
\* is about to replace the stored puzzle.
C15_Witness ==
    \E t \in Tasks :
        /\ begun = 2 /\ limit > 1
        /\ pc[t] = "start_answer_llm"
        /\ \A u \in Tasks \ {t} : pc[u] = "idle"
        /\ InProgress(Now(t))
        /\ Now(t).currentQuestion = <<"P">> /\ task[t].question = <<"Q">>

\* C16: a message that consists of the prefix with no action keyword is
\* matched by command_pattern and reaches the start-new-game branch; only a
\* text that does not begin with the prefix is left unmatched.
C16_PrefixAloneStarts ==
    matched_groups.applied
        => /\ message = <<Prefix>>
                 => matched_groups.matched /\ Branch(matched_groups) = "start"
           /\ ~matched_groups.matched => Head(message) # Prefix

\* C17: with commands handled one at a time, a serviced Ask and a serviced
\* Guess, whatever its classification, leave history as it was with one entry
\* added at the end; a new puzzle and Exit leave it empty; every other
\* command (Hint, Clues, ShowPuzzle, Reveal, Help, every rejected command)
\* leaves it unchanged.  Hence history becomes empty only by a new puzzle or
\* Exit, and the entries it holds keep their order.
C17_HistoryDiscipline ==
    \A t \in Tasks :
        pc[t] = "done"
            => /\ Completed(t, "question") /\ Was(t).active
                     => /\ task[t].reply = "answer"
                        /\ Now(t).history
                              = Append(Was(t).history,
                                       [kind |-> "dict", content |-> task[t].rest_input])
               /\ Completed(t, "guess") /\ InProgress(Was(t))
                     => /\ task[t].reply \in {"win", "incorrect", "unrelated"}
                        /\ Now(t).history
                              = Append(Was(t).history,
                                       [kind |-> "str", content |-> task[t].rest_input])
               /\ task[t].reply \in {"new_puzzle", "exit"} => Now(t).history = <<>>
               /\ task[t].reply
                     \notin {"answer", "win", "incorrect", "unrelated", "new_puzzle", "exit"}
                     => Now(t).history = Was(t).history
               /\ \/ Completed(t, "hint") \/ Completed(t, "clues")
                  \/ Completed(t, "show") \/ Completed(t, "reveal")
                  \/ Completed(t, "help") \/ ~task[t].ok
                     => Now(t).history = Was(t).history
               /\ Now(t).history = <<>> /\ Was(t).history # <<>>
                     => task[t].reply \in {"new_puzzle", "exit"}
               /\ Now(t).history # <<>>
                     => /\ Len(Now(t).history) >= Len(Was(t).history)
                        /\ SubSeq(Now(t).history, 1, Len(Was(t).history))
                              = Was(t).history

\* a Guess that was not won was appended behind the entry of a question
C17_Witness ==
    \E t \in Tasks :
        /\ Completed(t, "guess") /\ task[t].reply = "unrelated"
        /\ Len(Was(t).history) = 1 /\ Was(t).history[1].kind = "dict"
        /\ Len(Now(t).history) = 2 /\ Now(t).history[2].kind = "str"
        /\ Now(t).history[1] = Was(t).history[1]

\* C18: an Ask with text on a session without an active game is a start
\* command: two collaborator calls, both for the puzzle, the reply is the new
\* puzzle, and the session ends active, not over, with hintsUsed = 0 and an
\* empty history; the text of the question is not recorded in history and no
\* question-answering reply is given.
C18_AskStartsGame ==
    \A t \in Tasks :
        /\ Completed(t, "question") /\ ~Was(t).active
              => /\ task[t].reply = "new_puzzle" /\ task[t].reason = "new_puzzle"
                 /\ task[t].ok /\ ~task[t].raised
                 /\ task[t].calls = 2 /\ task[t].replies = 1
                 /\ Now(t).active /\ ~Now(t).over
                 /\ Now(t).hintsUsed = 0 /\ Now(t).history = <<>>
                 /\ Now(t).currentQuestion = task[t].question
                 /\ task[t].text = task[t].question
        /\ pc[t] \in {"start_question_llm", "start_answer_llm"}
           /\ Dispatch(task[t].action, task[t].rest_input) = "question"
              => /\ ~Was(t).active
                 /\ Now(t).history = Was(t).history
                 /\ task[t].calls = (IF pc[t] = "start_question_llm" THEN 1 ELSE 2)

\* an Ask with text has created the first puzzle of a chat
C18_Witness ==
    \E t \in Tasks :
        /\ Completed(t, "question") /\ ~task[t].before.exists
        /\ task[t].rest_input = <<"x">> /\ task[t].reply = "new_puzzle"
        /\ task[t].question = <<"P">>

\* C19: when a Hint or a Guess that waits at its collaborator call completes
\* after an Exit for the same chat has replaced the dict it holds by the reset
\* one, the session is still fully reset afterwards: active = false,
\* over = false, hintsUsed = 0, empty history, empty currentQuestion and
\* currentAnswer.
C19_ExitNotUndone ==
    [][\A t \in Tasks :
          LET g == task[t].group
              reset == [active |-> FALSE, over |-> FALSE, hintsUsed |-> 0,
                        currentQuestion |-> <<>>, currentAnswer |-> <<>>,
                        history |-> <<>>]
          IN  /\ pc[t] \in {"hint_llm", "guess_llm"} /\ pc'[t] = "done"
              /\ task[t].state # game_states[g]
              /\ View(game_states, heap, g).dict.keys
              /\ Session(View(game_states, heap, g)) = reset
              => Session(View(game_states', heap', g)) = reset]_vars

\* C20: the Guess keyword or the Ask keyword with an empty argument never
\* reaches guess evaluation or question answering.  The command is a start
\* command: on a session that is not InProgress it creates a new puzzle, with
\* hintsUsed = 0 and an empty history; on an InProgress session it gets the
\* start rejection and changes nothing.  It never appends to history and
\* never sets over.
C20_KeywordWithoutArgument ==
    \A t \in Tasks :
        /\ pc[t] # "idle"
        /\ task[t].action \in {"wenti", "caimi"} /\ task[t].rest_input = <<>>
        /\ task[t].reply \notin {"no_context", "disabled", "bad_config"}
        => /\ pc[t] \in {"start_question_llm", "start_answer_llm", "done"}
           /\ task[t].llm_response = <<>>
           /\ task[t].reply \in {"", "new_puzzle", "start_rejected"}
           /\ Len(Now(t).history) <= Len(Was(t).history)
           /\ ~Now(t).over \/ (pc[t] # "done" /\ Was(t).over)
           /\ pc[t] = "done" /\ ~InProgress(Was(t))
                 => /\ task[t].reply = "new_puzzle" /\ task[t].calls = 2
                    /\ InProgress(Now(t))
                    /\ Now(t).hintsUsed = 0 /\ Now(t).history = <<>>
           /\ pc[t] = "done" /\ InProgress(Was(t))
                 => /\ task[t].reply = "start_rejected" /\ task[t].calls = 0
                    /\ Now(t) = Was(t)

\* the Guess keyword without text has replaced a solved game, which had hints
\* used and a history, by a new puzzle
C20_Witness ==
    \E t \in Tasks :
        /\ pc[t] = "done" /\ task[t].action = "caimi" /\ task[t].rest_input = <<>>
        /\ Was(t).active /\ Was(t).over
        /\ Was(t).hintsUsed > 0 /\ Was(t).history # <<>>
        /\ task[t].reply = "new_puzzle" /\ Now(t).history = <<>>

====
